---- MODULE Spec2Model ----
(***************************************************************************)
(* Upload orchestration of the Quill ImageUpload module                    *)
(* (src/src/image-upload.js, class ImageUpload).                           *)
(*                                                                         *)
(* The model follows one editor instance: its configuration (options), the *)
(* host editor (document and selection), and for every file taken in by    *)
(* the toolbar, a drop or a paste, the position of its callback chain      *)
(* (file read, pre-send check, deferred paste task, request, local read,   *)
(* custom uploader continuation) together with the calls made so far.      *)
(***************************************************************************)
EXTENDS Integers, Sequences, FiniteSets, TLC

VARIABLES
    options,    \* this.options, fixed at construction
    files,      \* the files taken in so far: <<[path, entry]>>, a file's id is its position
    doc,        \* the host document: a sequence of cells (quill contents)
    selection,  \* quill.getSelection(): [has |-> FALSE] is null, else its index
    ch,         \* per file: the callbacks in flight (readers, timers, requests, held continuations)
    cnt,        \* per file: number of calls of each operation made for it
    last,       \* arguments of the calls made by the handler that ran latest
    env         \* events seen by the page: drops, suppressed defaults, warnings, alerts

vars == <<options, files, doc, selection, ch, cnt, last, env>>

-----------------------------------------------------------------------------
(* Bounds *)

MaxFiles == 2     \* files taken in over a run
MaxNext == 2      \* continuations invoked by a configured pre-send check over a run
MaxCont == 1      \* continuations invoked by a custom uploader over a run
InitLen == 2      \* length of the document at construction (text and final newline)
MaxIndex == 1     \* largest index the user puts the caret at

FileIds == 1..MaxFiles

-----------------------------------------------------------------------------
(* Values *)

\* JavaScript truthiness of an option value that is absent, '' or a string.
Truthy(v) == v \notin {"undefined", ""}

Urls == {"undefined", "", "/upload"}

\* Every value that travels through the chain is a record of one shape.
Value(kind, mime, data) == [kind |-> kind, mime |-> mime, data |-> data]

NoValue == Value("none", "", "")

\* Entries the user can hand over: File objects (toolbar, drop) and
\* DataTransferItem objects (clipboard).
PickedFiles == {Value("File", "image/png", "a.png"), Value("File", "text/plain", "a.txt")}
PastedItems == {Value("Item", "image/png", "clip.png"), Value("Item", "text/plain", "clip.txt")}

\* What a custom uploader may hand to its continuation.
UploaderValues == {Value("string", "", "data:image/png;base64,QUJD"),
                   Value("string", "", "http://cdn/img.png")}

StatusText(s) == CASE s = 200 -> "OK" [] s = 201 -> "Created" [] OTHER -> "Not Found"
Response(s, b) == [status |-> s, statusText |-> StatusText(s), body |-> b]
Responses == {Response(200, "{\"url\":\"http://x/img.png\"}"), Response(200, "<html>oops</html>"),
              Response(201, "{\"url\":\"http://x/img.png\"}"), Response(404, "<html>oops</html>")}

\* The type filter left out: every file is taken for an image
IsImage_NoFilter(type) == TRUE

\* /^image\//.test(type)
IsImage(type) == Len(type) >= 6 /\ SubSeq(type, 1, 6) = "image/"

\* file.getAsFile ? file.getAsFile() : file
BlobOf(entry) ==
    IF entry.kind = "Item"
    THEN (IF IsImage(entry.mime) THEN Value("File", entry.mime, entry.data) ELSE NoValue)
    ELSE entry

\* x instanceof Blob
IsBlob(v) == v.kind = "File"

\* FileReader.readAsDataURL(blob), as delivered in event.target.result
DataURL(blob) == Value("string", "", "data:" \o blob.mime \o ";base64," \o blob.data)

\* FormData.append(name, value): a Blob is kept, anything else is converted to a string
FormValue(v) == IF IsBlob(v) THEN v ELSE Value("string", "", "[object DataTransferItem]")

\* JSON.parse(text): the parsed object, or a SyntaxError
JsonParses(text) == text = "{\"url\":\"http://x/img.png\"}"
JsonParse(text) == Value("json", "", "url=http://x/img.png")

-----------------------------------------------------------------------------
(* The state a handler works on, as one record *)

ZeroCnt == [check |-> 0, next |-> 0, send |-> 0, uploader |-> 0, cont |-> 0,
            form |-> 0, xhr |-> 0, loaded |-> 0, neterr |-> 0,
            read |-> 0, readLoaded |-> 0, ok |-> 0, ko |-> 0,
            insert |-> 0, sendThrew |-> 0, loadThrew |-> 0, deferred |-> 0,
            readErr |-> 0]

ZeroCh == [reading |-> FALSE, held |-> FALSE, timers |-> 0, xhr |-> 0,
           reads |-> 0, uploads |-> 0]

NoEmbed == [index |-> 0, type |-> "", value |-> NoValue, source |-> ""]
NoError == [code |-> 0, type |-> "", body |-> ""]

NoLast == [file |-> 0, embed |-> NoEmbed, ok |-> NoValue, ko |-> NoError,
           response |-> [status |-> 0, statusText |-> "", body |-> ""],
           form |-> NoValue, uploaderArg |-> NoValue, cont |-> NoValue]

ZeroEnv == [drops |-> 0, prevented |-> 0, warns |-> 0, alerts |-> 0]

\* The state a handler starts from; last records this handler's calls only.
Cur == [doc |-> doc, selection |-> selection, ch |-> ch, cnt |-> cnt,
        last |-> NoLast, env |-> env]

Commit(w) ==
    /\ doc' = w.doc
    /\ selection' = w.selection
    /\ ch' = w.ch
    /\ cnt' = w.cnt
    /\ last' = w.last
    /\ env' = w.env

Count(w, f, op) == [w EXCEPT !.cnt[f][op] = @ + 1]

RECURSIVE SumOver(_, _)
SumOver(op, n) == IF n = 0 THEN 0 ELSE cnt[n][op] + SumOver(op, n - 1)
Total(op) == SumOver(op, MaxFiles)

TextCell == [type |-> "text", value |-> NoValue, source |-> "api"]

-----------------------------------------------------------------------------
(* ImageUpload.insert *)

\* (this.quill.getSelection() || {}).index || this.quill.getLength()
InsertIndex(sel, len) == IF sel.has /\ sel.index # 0 THEN sel.index ELSE len

\* quill.insertEmbed(index, type, value, source): the host's primitive
InsertEmbed(w, index, type, value, source) ==
    LET cell == [type |-> type, value |-> value, source |-> source]
    IN [w EXCEPT !.doc = SubSeq(@, 1, index) \o <<cell>> \o SubSeq(@, index + 1, Len(@)),
                 !.last.embed = [index |-> index, type |-> type,
                                 value |-> value, source |-> source]]

\* The embed attributed to the API instead of the user
Insert_ApiSource(w, f, dataUrl) ==
    InsertEmbed(Count(w, f, "insert"),
                InsertIndex(w.selection, Len(w.doc)), "image", dataUrl, "api")

\* An insert that remembers what it inserted: a payload already embedded is skipped
Insert_Dedup(w, f, dataUrl) ==
    IF \E i \in 1..Len(w.doc) : w.doc[i].type = "image" /\ w.doc[i].value = dataUrl
    THEN Count(w, f, "insert")
    ELSE InsertEmbed(Count(w, f, "insert"),
                     InsertIndex(w.selection, Len(w.doc)), "image", dataUrl, "user")

Insert(w, f, dataUrl) ==
    InsertEmbed(Count(w, f, "insert"),
                InsertIndex(w.selection, Len(w.doc)), "image", dataUrl, "user")

-----------------------------------------------------------------------------
(* Outcome callbacks *)

\* The default success callback not calling its continuation
UploadImageCallbackOK_Drop(w, f, response) == w

\* uploadImageCallbackOK(response, next): next(response)
UploadImageCallbackOK(w, f, response) == Insert(w, f, response)

\* uploadImageCallbackKO(error): alert(error)
UploadImageCallbackKO(w, f, error) == [w EXCEPT !.env.alerts = @ + 1]

\* callbackOK = this.options.callbackOK || this.uploadImageCallbackOK.bind(this),
\* called as callbackOK(response, this.insert.bind(this)).  A configured
\* callback either calls its continuation with the response or does not.
CallbackOK(w, f, response, callsNext) ==
    LET w1 == [Count(w, f, "ok") EXCEPT !.last.ok = response, !.last.file = f]
    IN IF options.callbackOK = "custom"
       THEN (IF callsNext THEN Insert(w1, f, response) ELSE w1)
       ELSE UploadImageCallbackOK(w1, f, response)

\* callbackKO = this.options.callbackKO || this.uploadImageCallbackKO.bind(this)
CallbackKO(w, f, error) ==
    LET w1 == [Count(w, f, "ko") EXCEPT !.last.ko = error, !.last.file = f]
    IN IF options.callbackKO = "custom"
       THEN w1
       ELSE UploadImageCallbackKO(w1, f, error)

\* The descriptor with status text and body exchanged
ErrorOf_Swapped(response) ==
    [code |-> response.status, type |-> response.body, body |-> response.statusText]

\* The error descriptor built in xhr.onload
ErrorOf(response) ==
    [code |-> response.status, type |-> response.statusText, body |-> response.body]

-----------------------------------------------------------------------------
(* ImageUpload.sendToServer: the part that runs when it is called *)

\* The url tested before the custom uploader
SendPath_UrlFirst(opts) ==
    IF Truthy(opts.url) THEN "network"
    ELSE IF opts.customUploader THEN "custom"
    ELSE "base64"

\* The url tested against undefined only, so that '' counts as an endpoint
SendPath_EmptyUrl(opts) ==
    IF opts.customUploader THEN "custom"
    ELSE IF opts.url # "undefined" THEN "network"
    ELSE "base64"

\* No local fallback: a request is made whenever no custom uploader is set
SendPath_NoFallback(opts) ==
    IF opts.customUploader THEN "custom" ELSE "network"

\* Which branch sendToServer takes
SendPath(opts) ==
    IF opts.customUploader THEN "custom"
    ELSE IF Truthy(opts.url) THEN "network"
    ELSE "base64"

\* this.options.customUploader(file, dataUrl => { this.insert(dataUrl); })
SendCustom(w, f, file) ==
    [Count(w, f, "uploader") EXCEPT !.ch[f].uploads = @ + 1, !.last.uploaderArg = file]

\* new FormData(); fd.append(name, file); xhr.open(...); xhr.send(fd)
SendNetwork(w, f, file) ==
    [Count(Count(w, f, "form"), f, "xhr") EXCEPT !.ch[f].xhr = @ + 1,
                                                 !.last.form = FormValue(file)]

\* new FileReader(); reader.readAsDataURL(file): a TypeError when file is no Blob
SendBase64(w, f, file) ==
    IF IsBlob(file)
    THEN [Count(w, f, "read") EXCEPT !.ch[f].reads = @ + 1]
    ELSE Count(w, f, "sendThrew")

SendToServer(w, f, file) ==
    LET w1 == Count(w, f, "send")
        path == SendPath(options)
    IN CASE path = "custom" -> SendCustom(w1, f, file)
         [] path = "network" -> SendNetwork(w1, f, file)
         [] OTHER -> SendBase64(w1, f, file)

-----------------------------------------------------------------------------
(* Pre-send check and its continuations *)

\* The selection test left out: the paste continuation always defers a send
PasteDefers_Always(sel) == TRUE

\* Whether the paste continuation defers a send: only without a selection
PasteDefers(sel) == ~sel.has

\* A paste continuation that sends at once when the editor has a selection
PasteCallback_SendsNow(w, f, dataUrl) ==
    IF PasteDefers(w.selection)
    THEN [Count(w, f, "deferred") EXCEPT !.ch[f].timers = @ + 1]
    ELSE SendToServer(w, f, dataUrl)

\* handlePaste's callback: dataUrl => { if (selection) {} else setTimeout(...) }
PasteCallback(w, f, dataUrl) ==
    IF PasteDefers(w.selection)
    THEN [Count(w, f, "deferred") EXCEPT !.ch[f].timers = @ + 1]
    ELSE w

\* The continuation of the lines commented out at 289 and 309: this.insert.bind(this)
Continue_InsertDirect(w, f, file, path) == Insert(Count(w, f, "next"), f, file)

\* The continuation handed to the check: this.sendToServer.bind(this) on the
\* toolbar and drop paths, handlePaste's callback on the paste path.
Continue(w, f, file, path) ==
    LET w1 == Count(w, f, "next")
    IN IF path = "paste" THEN PasteCallback(w1, f, file) ELSE SendToServer(w1, f, file)

\* A default check that invokes its continuation twice
DefaultCheckBeforeSend_Twice(w, f, file, path) ==
    Continue(Continue(w, f, file, path), f, file, path)

\* checkBeforeSend(file, next): next(file)
DefaultCheckBeforeSend(w, f, file, path) == Continue(w, f, file, path)

\* checkBeforeSend = this.options.checkBeforeSend || this.checkBeforeSend.bind(this);
\* a configured check keeps the continuation and may invoke it later.
CheckBeforeSend(w, f, file, path) ==
    LET w1 == Count(w, f, "check")
    IN IF options.checkBeforeSend = "custom"
       THEN [w1 EXCEPT !.ch[f].held = TRUE]
       ELSE DefaultCheckBeforeSend(w1, f, file, path)

-----------------------------------------------------------------------------
(* ImageUpload.readFiles *)

\* [].forEach.call(files, file => ...): a reader is started for every entry
\* of an image type whose blob is a Blob; the others are skipped.
StartsReader(entry) == IsImage(entry.mime) /\ IsBlob(BlobOf(entry))

\* Only the first entry of the list is read
ReadFiles_FirstOnly(w, base, entries) ==
    [w EXCEPT !.ch = [f \in FileIds |->
        IF f = base + 1 /\ Len(entries) > 0 /\ StartsReader(entries[1])
        THEN [@[f] EXCEPT !.reading = TRUE]
        ELSE @[f]]]

ReadFiles(w, base, entries) ==
    [w EXCEPT !.ch = [f \in FileIds |->
        IF f > base /\ f <= base + Len(entries) /\ StartsReader(entries[f - base])
        THEN [@[f] EXCEPT !.reading = TRUE]
        ELSE @[f]]]

-----------------------------------------------------------------------------
(* Construction *)

Options == [url : Urls, customUploader : BOOLEAN,
            checkBeforeSend : {"default", "custom"},
            callbackOK : {"default", "custom"},
            callbackKO : {"default", "custom"}]

NullSelection == [has |-> FALSE, index |-> 0]
Range(i) == [has |-> TRUE, index |-> i]

Init ==
    /\ options \in Options
    /\ files = <<>>
    /\ doc = [i \in 1..InitLen |-> TextCell]
    /\ selection = NullSelection
    /\ ch = [f \in FileIds |-> ZeroCh]
    /\ cnt = [f \in FileIds |-> ZeroCnt]
    /\ last = NoLast
    /\ env = ZeroEnv

-----------------------------------------------------------------------------
(* Handlers *)

Register(path, entries) ==
    files' = files \o [i \in 1..Len(entries) |-> [path |-> path, entry |-> entries[i]]]

EntrySeqs(S, n) == UNION {[1..k -> S] : k \in 0..n}

\* selectLocalImage: input.onchange
ToolbarChange(entry) ==
    /\ Len(files) < MaxFiles
    /\ Register("toolbar", <<entry>>)
    /\ LET f == Len(files) + 1
       IN IF IsImage(entry.mime)
          THEN Commit(CheckBeforeSend(Cur, f, entry, "toolbar"))
          ELSE Commit([Cur EXCEPT !.env.warns = @ + 1])
    /\ UNCHANGED options

\* handleDrop(evt); caret is the range document.caretRangeFromPoint gives, if any
HandleDrop(entries, caret) ==
    /\ env.drops < MaxFiles
    /\ Len(files) + Len(entries) <= MaxFiles
    /\ Register("drop", entries)
    /\ LET w1 == [Cur EXCEPT !.env.drops = @ + 1, !.env.prevented = @ + 1]
       IN IF Len(entries) > 0
          THEN Commit(ReadFiles([w1 EXCEPT !.selection = IF caret.has THEN caret ELSE @],
                                Len(files), entries))
          ELSE Commit(w1)
    /\ UNCHANGED options

\* handlePaste(evt)
HandlePaste(items) ==
    /\ Len(items) > 0
    /\ Len(files) + Len(items) <= MaxFiles
    /\ Register("paste", items)
    /\ Commit(ReadFiles(Cur, Len(files), items))
    /\ UNCHANGED options

\* readFiles: reader.onload
ReaderOnload(f) ==
    /\ f <= Len(files)
    /\ ch[f].reading
    /\ Commit(CheckBeforeSend([Cur EXCEPT !.ch[f].reading = FALSE],
                              f, files[f].entry, files[f].path))
    /\ UNCHANGED <<options, files>>

\* readFiles: the read fails; the reader has no error handler
ReaderError(f) ==
    /\ f <= Len(files)
    /\ ch[f].reading
    /\ Commit([Count(Cur, f, "readErr") EXCEPT !.ch[f].reading = FALSE])
    /\ UNCHANGED <<options, files>>

\* A configured check invokes the continuation it was given
CheckNext(f) ==
    /\ f <= Len(files)
    /\ ch[f].held
    /\ Total("next") < MaxNext
    /\ Commit(Continue(Cur, f, files[f].entry, files[f].path))
    /\ UNCHANGED <<options, files>>

\* handlePaste: setTimeout(() => this.sendToServer(dataUrl), 0)
TimerFire(f) ==
    /\ f <= Len(files)
    /\ ch[f].timers > 0
    /\ Commit(SendToServer([Cur EXCEPT !.ch[f].timers = @ - 1], f, files[f].entry))
    /\ UNCHANGED <<options, files>>

\* sendToServer: dataUrl => { this.insert(dataUrl); }, invoked by the custom uploader
UploaderContinuation(f, dataUrl) ==
    /\ f <= Len(files)
    /\ ch[f].uploads > 0
    /\ Total("cont") < MaxCont
    /\ Commit(Insert([Count(Cur, f, "cont") EXCEPT !.last.cont = dataUrl], f, dataUrl))
    /\ UNCHANGED <<options, files>>

\* xhr.onload body
OnLoad(w, f, response, callsNext) ==
    IF response.status = 200
    THEN (IF JsonParses(response.body)
          THEN CallbackOK(w, f, JsonParse(response.body), callsNext)
          ELSE Count(w, f, "loadThrew"))
    ELSE CallbackKO(w, f, ErrorOf(response))

OkChoices == IF options.callbackOK = "custom" THEN BOOLEAN ELSE {TRUE}

\* sendToServer: xhr.onload, the request completed with a response
XhrLoad(f, response) ==
    /\ f <= Len(files)
    /\ ch[f].xhr > 0
    /\ \E callsNext \in OkChoices :
         Commit(OnLoad([Count(Cur, f, "loaded") EXCEPT !.ch[f].xhr = @ - 1,
                                                       !.last.response = response],
                       f, response, callsNext))
    /\ UNCHANGED <<options, files>>

\* The request ends without a response (network failure); no handler is registered
XhrError(f) ==
    /\ f <= Len(files)
    /\ ch[f].xhr > 0
    /\ Commit([Count(Cur, f, "neterr") EXCEPT !.ch[f].xhr = @ - 1])
    /\ UNCHANGED <<options, files>>

\* sendToServer: reader.onload of the local read
SendReaderOnload(f) ==
    /\ f <= Len(files)
    /\ ch[f].reads > 0
    /\ \E callsNext \in OkChoices :
         Commit(CallbackOK([Count(Cur, f, "readLoaded") EXCEPT !.ch[f].reads = @ - 1],
                           f, DataURL(files[f].entry), callsNext))
    /\ UNCHANGED <<options, files>>

\* sendToServer: the local read fails; the reader has no error handler
SendReaderError(f) ==
    /\ f <= Len(files)
    /\ ch[f].reads > 0
    /\ Commit([Cur EXCEPT !.ch[f].reads = @ - 1])
    /\ UNCHANGED <<options, files>>

\* The user moves the caret or leaves the editor
SetSelection(sel) ==
    /\ sel # selection
    /\ selection' = sel
    /\ UNCHANGED <<options, files, doc, ch, cnt, last, env>>

Selections ==
    {NullSelection} \cup {Range(i) : i \in {j \in 0..MaxIndex : j < Len(doc)}}

Next ==
    \/ \E entry \in PickedFiles : ToolbarChange(entry)
    \/ \E entries \in EntrySeqs(PickedFiles, MaxFiles), caret \in Selections :
          HandleDrop(entries, caret)
    \/ \E items \in EntrySeqs(PastedItems, MaxFiles) : HandlePaste(items)
    \/ \E f \in FileIds : ReaderOnload(f)
    \/ \E f \in FileIds : ReaderError(f)
    \/ \E f \in FileIds : CheckNext(f)
    \/ \E f \in FileIds : TimerFire(f)
    \/ \E f \in FileIds, v \in UploaderValues : UploaderContinuation(f, v)
    \/ \E f \in FileIds, r \in Responses : XhrLoad(f, r)
    \/ \E f \in FileIds : XhrError(f)
    \/ \E f \in FileIds : SendReaderOnload(f)
    \/ \E f \in FileIds : SendReaderError(f)
    \/ \E sel \in Selections : SetSelection(sel)

Spec == Init /\ [][Next]_vars

-----------------------------------------------------------------------------
(* The earlier selectLocalImage (src/unnamed/part_001): toolbar only, and   *)
(* checkBeforeSend(file, this.sendToServer) without bind                    *)

\* sendToServer(file) of that class, called with the given this: its first
\* statement reads this.options, a TypeError when this is undefined;
\* otherwise it always makes a request (url || 'your-url.com').
SendToServerVariant(w, f, file, this) ==
    LET w1 == Count(w, f, "send")
    IN IF this = "undefined"
       THEN Count(w1, f, "sendThrew")
       ELSE SendNetwork(w1, f, file)

\* next = this.sendToServer, a method taken off the instance: called as a
\* plain function in class (strict) code, its this is undefined.
ContinueVariant(w, f, file) ==
    SendToServerVariant(Count(w, f, "next"), f, file, "undefined")

\* checkBeforeSend = this.options.checkBeforeSend || this.checkBeforeSend
CheckBeforeSendVariant(w, f, file) ==
    LET w1 == Count(w, f, "check")
    IN IF options.checkBeforeSend = "custom"
       THEN [w1 EXCEPT !.ch[f].held = TRUE]
       ELSE ContinueVariant(w1, f, file)

\* selectLocalImage: input.onchange
ToolbarChangeVariant(entry) ==
    /\ Len(files) < MaxFiles
    /\ Register("toolbar", <<entry>>)
    /\ LET f == Len(files) + 1
       IN IF IsImage(entry.mime)
          THEN Commit(CheckBeforeSendVariant(Cur, f, entry))
          ELSE Commit([Cur EXCEPT !.env.warns = @ + 1])
    /\ UNCHANGED options

\* A configured check invokes the continuation it was given
CheckNextVariant(f) ==
    /\ f <= Len(files)
    /\ ch[f].held
    /\ Total("next") < MaxNext
    /\ Commit(ContinueVariant(Cur, f, files[f].entry))
    /\ UNCHANGED <<options, files>>

NextVariant ==
    \/ \E entry \in PickedFiles : ToolbarChangeVariant(entry)
    \/ \E f \in FileIds : CheckNextVariant(f)
    \/ \E sel \in Selections : SetSelection(sel)

SpecVariant == Init /\ [][NextVariant]_vars

-----------------------------------------------------------------------------
(* Properties *)

Taken == 1..Len(files)
InitDoc == [i \in 1..InitLen |-> TextCell]
NonImageTypes == {"text/plain"}
ImageCell(value) == [type |-> "image", value |-> value, source |-> "user"]

\* C1 (as claimed): every insertEmbed call made by insert is at the
\* selection's index when a selection exists, index 0 included, and at the
\* document end only when there is no selection.
C1_InsertAtSelection ==
    [][doc' # doc =>
         last'.embed.index = (IF selection.has THEN selection.index ELSE Len(doc))]_vars

\* C2: for a file whose type does not start with "image/", on the toolbar,
\* drop and paste paths alike, no pre-send check, no send, no callback and
\* no insert is ever made and nothing is left in flight; while only such
\* files were taken in the document is as constructed.
C2_NonImageIgnored ==
    /\ \A f \in Taken :
          files[f].entry.mime \in NonImageTypes => cnt[f] = ZeroCnt /\ ch[f] = ZeroCh
    /\ (\A f \in Taken : files[f].entry.mime \in NonImageTypes) => doc = InitDoc

C2_Witness ==
    /\ Len(files) = 2
    /\ files[1].path = "toolbar" /\ files[1].entry.mime \in NonImageTypes
    /\ files[2].path = "paste" /\ files[2].entry.mime \in NonImageTypes
    /\ env.warns = 1

\* C3: with customUploader set, whatever url is, sendToServer builds no
\* form, opens no request and starts no local read; each send is one call of
\* the custom uploader, neither outcome callback runs, and an insert happens
\* only when the continuation is invoked, with exactly the value given.
C3_CustomUploaderOnly ==
    options.customUploader =>
        /\ \A f \in FileIds :
              /\ cnt[f].form = 0 /\ cnt[f].xhr = 0 /\ cnt[f].read = 0
              /\ ch[f].xhr = 0 /\ ch[f].reads = 0
              /\ cnt[f].ok = 0 /\ cnt[f].ko = 0
              /\ cnt[f].uploader = cnt[f].send
              /\ cnt[f].insert = cnt[f].cont
        /\ last.form = NoValue
        /\ last.uploaderArg # NoValue => \E f \in Taken : last.uploaderArg = files[f].entry
        /\ last.cont # NoValue => /\ last.embed.value = last.cont
                                  /\ last.embed.type = "image"
                                  /\ last.embed.source = "user"
        /\ last.cont = NoValue => last.embed = NoEmbed

C3_Witness ==
    /\ options.customUploader
    /\ options.url = "/upload"
    /\ last.cont \in UploaderValues
    /\ \E i \in 1..Len(doc) : doc[i] = ImageCell(last.cont)

C5_CustomOrNetwork ==
    \A f \in FileIds : cnt[f].send = cnt[f].uploader + cnt[f].xhr

\* C5 (amended): each send enters exactly one of three branches: the custom
\* uploader when customUploader is set; else the request when url is
\* non-empty; else the local read, which makes no request (and ends in a
\* TypeError when the value sent is not a Blob).
C5_OnePathOfThree ==
    \A f \in FileIds :
        /\ cnt[f].send = cnt[f].uploader + cnt[f].xhr + cnt[f].read + cnt[f].sendThrew
        /\ cnt[f].form = cnt[f].xhr
        /\ options.customUploader => cnt[f].uploader = cnt[f].send
        /\ (~options.customUploader /\ options.url = "/upload") => cnt[f].xhr = cnt[f].send
        /\ (~options.customUploader /\ options.url \in {"undefined", ""}) =>
              cnt[f].read + cnt[f].sendThrew = cnt[f].send

C5_Witness ==
    \E f \in Taken : cnt[f].send = 2 /\ cnt[f].read = 2 /\ cnt[f].xhr = 0 /\ cnt[f].uploader = 0

\* C6 (as claimed): when a request completes with status s, the success
\* callback is invoked if and only if s = 200, and the failure callback if
\* and only if s # 200.
C6_OkIffStatus200 ==
    last.response.status # 0 =>
        /\ (last.ok # NoValue) <=> (last.response.status = 200)
        /\ (last.ko # NoError) <=> (last.response.status # 200)

\* C7: when a request completes with a status other than 200, the failure
\* callback is called once with {code, type, body} taken from that response,
\* the success callback and insert are not called, and the document is
\* unchanged.
C7_FailureDescriptor ==
    /\ [](last.response.status \notin {0, 200} =>
            /\ last.ko = [code |-> last.response.status,
                          type |-> last.response.statusText,
                          body |-> last.response.body]
            /\ last.ok = NoValue
            /\ last.embed = NoEmbed)
    /\ [][(cnt' # cnt /\ last'.response.status \notin {0, 200}) =>
            /\ doc' = doc
            /\ \A f \in FileIds : /\ cnt'[f].insert = cnt[f].insert
                                  /\ cnt'[f].ok = cnt[f].ok
            /\ cnt'[last'.file].ko = cnt[last'.file].ko + 1]_vars

C7_Witness ==
    /\ last.response.status = 404
    /\ last.ko = [code |-> 404, type |-> "Not Found", body |-> "<html>oops</html>"]
    /\ cnt[last.file].ko = 1

\* C8 (as claimed): a request that ends in a network failure delivers an
\* error to the failure callback.
C8_NetworkFailureReported ==
    [][\A f \in FileIds :
          cnt'[f].neterr > cnt[f].neterr => cnt'[f].ko > cnt[f].ko]_vars

\* C9 (as claimed): no request-load handler, file-reader handler or deferred
\* paste task ends in a thrown exception.
C9_NoHandlerThrows ==
    \A f \in FileIds : cnt[f].loadThrew = 0 /\ cnt[f].sendThrew = 0

\* C10 (as claimed): sendToServer is invoked for a file once per invocation
\* of next, a send deferred to the next tick counted with them.
C10_SendPerNext ==
    \A f \in FileIds : cnt[f].send + ch[f].timers = cnt[f].next

\* C10 (amended): on the toolbar and drop paths sendToServer is invoked once
\* per invocation of next and never otherwise; on the paste path an
\* invocation of next sends nothing itself and schedules one deferred send
\* only when the editor reports no selection at that moment; with the default
\* check next is invoked once per check; and while next was never invoked no
\* send, callback or insert has happened for the file.
C10_SendOnlyThroughNext ==
    /\ [](\A f \in Taken :
            /\ files[f].path # "paste" =>
                  cnt[f].send = cnt[f].next /\ cnt[f].deferred = 0
            /\ files[f].path = "paste" =>
                  /\ cnt[f].send + ch[f].timers = cnt[f].deferred
                  /\ cnt[f].deferred <= cnt[f].next
            /\ options.checkBeforeSend = "default" => cnt[f].next = cnt[f].check
            /\ cnt[f].next = 0 =>
                  /\ cnt[f].send = 0 /\ cnt[f].ok = 0 /\ cnt[f].ko = 0
                  /\ cnt[f].insert = 0 /\ cnt[f].uploader = 0
                  /\ ch[f].timers = 0 /\ ch[f].xhr = 0 /\ ch[f].reads = 0
                  /\ ch[f].uploads = 0)
    /\ [][\A f \in Taken :
            (files[f].path = "paste" /\ cnt'[f].next # cnt[f].next) =>
                /\ cnt'[f].next = cnt[f].next + 1
                /\ cnt'[f].send = cnt[f].send
                /\ cnt'[f].deferred = cnt[f].deferred + (IF selection.has THEN 0 ELSE 1)]_vars

C10_Witness ==
    \E f \in Taken :
        /\ files[f].path = "paste"
        /\ cnt[f].next = 2
        /\ cnt[f].deferred = 1
        /\ cnt[f].send = 1

\* The document after insertEmbed(index, 'image', value, 'user')
Spliced(d, index, value) ==
    SubSeq(d, 1, index) \o <<ImageCell(value)>> \o SubSeq(d, index + 1, Len(d))

\* C11: every change of the document, on every intake path and send
\* strategy, is one insertEmbed call of type 'image' and source 'user' made
\* by insert: the document grows by that one cell, one insert call is counted
\* for one file, and the document holds as many embeds as insert was called.
C11_InsertIsOnlyMutation ==
    /\ [](/\ Len(doc) = InitLen + Total("insert")
          /\ \A i \in 1..Len(doc) : doc[i] # TextCell =>
                doc[i].type = "image" /\ doc[i].source = "user")
    /\ [][doc' # doc =>
            /\ last'.embed.type = "image"
            /\ last'.embed.source = "user"
            /\ doc' = Spliced(doc, last'.embed.index, last'.embed.value)
            /\ \E f \in FileIds :
                  /\ cnt'[f].insert = cnt[f].insert + 1
                  /\ \A g \in FileIds \ {f} : cnt'[g].insert = cnt[g].insert]_vars

C11_Witness ==
    /\ Len(files) = 2
    /\ files[1].path = "drop" /\ cnt[1].insert = 1
    /\ files[2].path = "paste" /\ cnt[2].insert = 1
    /\ Len(doc) = InitLen + 2

\* C12: with the default success callback every success payload (parsed
\* response or data URI) is handed unchanged to insert exactly once: the
\* success callback and insert are called equally often for every file, and
\* the call embeds the payload the callback received.
C12_DefaultOkInsertsPayload ==
    (options.callbackOK = "default" /\ ~options.customUploader) =>
        /\ \A f \in FileIds : cnt[f].insert = cnt[f].ok
        /\ last.ok # NoValue =>
              /\ last.embed.value = last.ok
              /\ \E i \in 1..Len(doc) : doc[i] = ImageCell(last.ok)
        /\ last.ok = NoValue => last.embed = NoEmbed

C12_Witness ==
    /\ options.callbackOK = "default"
    /\ last.ok = [kind |-> "json", mime |-> "", data |-> "url=http://x/img.png"]
    /\ last.embed.value = last.ok
    /\ cnt[last.file].ok = 2 /\ cnt[last.file].insert = 2

\* C13: for every file the pre-send check is invoked only for an image, at
\* most once and never after a send of that file; no outcome callback comes
\* before a send (every outcome belongs to a started send); and no insert
\* comes before the send and its success outcome (the success callback, or
\* the custom uploader's continuation).
C13_ChainOrder ==
    /\ [](\A f \in Taken :
            /\ cnt[f].check <= 1
            /\ cnt[f].check = 1 => files[f].entry.mime = "image/png"
            /\ cnt[f].next > 0 => cnt[f].check = 1
            /\ cnt[f].send <= cnt[f].next
            /\ cnt[f].ok + cnt[f].ko + cnt[f].loadThrew + cnt[f].neterr
                  + ch[f].xhr + ch[f].reads <= cnt[f].send
            /\ cnt[f].insert <= cnt[f].ok + cnt[f].cont
            /\ cnt[f].cont > 0 => cnt[f].uploader > 0)
    /\ [][\A f \in FileIds :
            /\ cnt'[f].check # cnt[f].check =>
                  cnt[f].send = 0 /\ cnt[f].ok = 0 /\ cnt[f].ko = 0 /\ cnt[f].insert = 0
            /\ cnt'[f].insert # cnt[f].insert =>
                  /\ cnt'[f].send = cnt[f].send
                  /\ cnt[f].send > 0
                  /\ (cnt'[f].ok = cnt[f].ok + 1 \/ cnt'[f].cont = cnt[f].cont + 1)]_vars

C13_Witness ==
    \E f \in Taken :
        /\ cnt[f].check = 1 /\ cnt[f].next = 1 /\ cnt[f].send = 1
        /\ cnt[f].ok = 1 /\ cnt[f].insert = 1
        /\ files[f].path = "drop"

\* C14 (as claimed): with the default callbacks, when the request of a
\* dropped file completes, the file is inserted if the status is 200 and
\* reaches the failure callback otherwise, and nothing of any other file
\* changes.
C14_DropOutcomesIndependent ==
    [][\A f \in Taken :
          (/\ files[f].path = "drop"
           /\ options.callbackOK = "default"
           /\ cnt'[f].loaded = cnt[f].loaded + 1) =>
              /\ IF last'.response.status = 200
                 THEN cnt'[f].insert = cnt[f].insert + 1 /\ cnt'[f].ko = cnt[f].ko
                 ELSE cnt'[f].ko = cnt[f].ko + 1 /\ cnt'[f].insert = cnt[f].insert
              /\ \A g \in FileIds \ {f} : cnt'[g] = cnt[g] /\ ch'[g] = ch[g]]_vars

\* C15: with the default check, the default callbacks and no custom
\* uploader, every dropped file is sent at most once (at most one request or
\* local read, none after a failure) and inserted at most once, a file that
\* is no image never; the document holds at most one embed per dropped image.
C15_AtMostOncePerFile ==
    (/\ options.checkBeforeSend = "default"
     /\ options.callbackOK = "default"
     /\ options.callbackKO = "default"
     /\ ~options.customUploader) =>
        /\ \A f \in Taken :
              files[f].path = "drop" =>
                  /\ cnt[f].send <= 1
                  /\ cnt[f].xhr + cnt[f].read <= 1
                  /\ cnt[f].insert <= 1
                  /\ cnt[f].ko + cnt[f].neterr + cnt[f].loadThrew > 0 =>
                        cnt[f].insert = 0 /\ ch[f].xhr = 0 /\ ch[f].reads = 0
                  /\ files[f].entry.mime \in NonImageTypes => cnt[f].insert = 0
        /\ (\A f \in Taken : files[f].path = "drop") =>
              Len(doc) - InitLen <=
                  Cardinality({f \in Taken : files[f].entry.mime = "image/png"})

C15_Witness ==
    /\ options.checkBeforeSend = "default"
    /\ options.callbackOK = "default"
    /\ options.callbackKO = "default"
    /\ ~options.customUploader
    /\ Len(files) = 2
    /\ files[1].path = "drop" /\ files[2].path = "drop"
    /\ cnt[1].ko = 1 /\ cnt[1].xhr = 1 /\ cnt[1].insert = 0
    /\ cnt[2].insert = 1 /\ cnt[2].xhr = 1
    /\ env.drops = 1

C17_DeferredInsertOnce ==
    (/\ ~options.customUploader
     /\ options.url \in {"undefined", ""}
     /\ options.callbackOK = "default") =>
        \A f \in Taken :
            (/\ files[f].path = "paste"
             /\ cnt[f].deferred > 0
             /\ ch[f].timers = 0
             /\ ch[f].reads = 0
             /\ cnt[f].read = cnt[f].readLoaded) =>
                cnt[f].insert = cnt[f].deferred

\* C18 (as claimed): when an image is picked from the toolbar and the
\* default check is in use, sendToServer runs on the instance and the file is
\* sent: one send per file, started on one of the send paths, no exception.
C18_ToolbarFileSent ==
    options.checkBeforeSend = "default" =>
        \A f \in Taken :
            (files[f].path = "toolbar" /\ files[f].entry.mime = "image/png") =>
                /\ cnt[f].send = 1
                /\ cnt[f].sendThrew = 0
                /\ cnt[f].uploader + cnt[f].xhr + cnt[f].read = 1

\* C19: insert keeps no state: every change of the document is the splice of
\* one image cell carrying the payload given, at the index computed from the
\* selection and the length at that moment alone (the selection's index when
\* it is non-zero, else the length); every insert call adds a cell, also for
\* a payload embedded before; and options is never written after
\* construction.
C19_InsertStateless ==
    /\ [](Len(doc) = InitLen + Total("insert"))
    /\ [][options' = options]_vars
    /\ [][doc' # doc =>
            /\ Len(doc') = Len(doc) + 1
            /\ selection' = selection
            /\ doc' = Spliced(doc,
                              IF selection.has /\ selection.index > 0
                              THEN selection.index ELSE Len(doc),
                              last'.embed.value)
            /\ \/ last'.embed.value = last'.ok
               \/ last'.embed.value = last'.cont]_vars

C19_Witness ==
    \E i, j \in 1..Len(doc) :
        /\ i + 1 < j
        /\ doc[i].type = "image"
        /\ doc[j] = doc[i]
        /\ doc[i].value.kind = "string"

\* C20: on the paste path, when the editor reports a selection at the moment
\* the check's continuation runs, nothing further is done for that pasted
\* image: no deferred task, no send, no callback, no insert, and the document
\* and every pending callback stay as they were.
C20_PasteWithSelectionStops ==
    [][\A f \in Taken :
          (/\ files[f].path = "paste"
           /\ cnt'[f].next # cnt[f].next
           /\ selection.has) =>
              /\ cnt'[f] = [cnt[f] EXCEPT !.next = cnt'[f].next, !.check = cnt'[f].check]
              /\ ch'[f].timers = ch[f].timers
              /\ ch'[f].xhr = ch[f].xhr
              /\ ch'[f].reads = ch[f].reads
              /\ ch'[f].uploads = ch[f].uploads
              /\ doc' = doc
              /\ last' = NoLast
              /\ env' = env]_vars

C20_Witness ==
    /\ selection.has
    /\ \E f \in Taken :
          /\ files[f].path = "paste"
          /\ cnt[f] = [ZeroCnt EXCEPT !.check = 1, !.next = 2]
          /\ ch[f] = [ZeroCh EXCEPT !.held = TRUE]

====
